---- MODULE Spec2Model ----
(***************************************************************************)
(* Model of the MijiaTemp service (src/modules/mijia-temp/mijia-temp.ts):  *)
(* a poller that spawns gatttool once per poll cycle, reads its output     *)
(* line by line, publishes the decoded reading and retries on abnormal     *)
(* exits.  Node.js runs every handler to completion on one thread, so each *)
(* handler (start, stop, interval tick, retry timeout, 'exit', 'error',    *)
(* 'line') is one atomic action.                                           *)
(***************************************************************************)
EXTENDS Integers, Sequences, FiniteSets, TLC

\* ---------------------------------------------------------------- constants
MAX_RETRY == 10

\* ------------------------------------------------------------------- bounds
MaxProcs == 2      \* subprocesses that may be alive at the same time
MaxLines == 3      \* output lines one subprocess delivers
MaxPending == 2    \* fixed-delay retry timers pending at the same time
LogLen == 5        \* length of the observation logs of a watched run

Slots == 1..MaxProcs
None == 0

\* exit codes of the 'exit' event; -1 stands for code === null (killed by a signal)
ExitCodes == {0, 1, 130, -1}
HealthStates == {"OK", "BUSY", "PROBLEM", "ERROR", "INACTIVE"}
LineKinds == {"header", "value", "garbage"}
Byte == 0..255
HexDigits == <<"0", "1", "2", "3", "4", "5", "6", "7", "8", "9", "a", "b", "c", "d", "e", "f">>
\* the number NaN
NaN == -1
\* the text "undefined" and a word of the tool's acknowledgement line
Undefined == <<"u", "n", "d", "e", "f", "i", "n", "e", "d">>
Word == <<"w", "a", "s">>
\* the sample of a run that does not range over the bytes: 8e 01 3c
ExampleSample == <<142, 1, 60>>
\* record.set has not been called
NothingSet == [written |-> FALSE, temperature |-> NaN, humidity |-> NaN]
Triggers == {"start", "interval", "retry"}

VARIABLES
    timer,          \* this.timer: "unset", "running" (setInterval), "cleared"
    record,         \* this.record: "unset", "open", "discarded"
    health,         \* Service state set through setState
    retryCounter,   \* this.retryCounter
    gattProcess,    \* this.gattProcess: a slot, or None for undefined
    procs,          \* the ChildProcess objects and the closure state of their handlers
    retryTimers,    \* pending setTimeout(() => this.update(), RETRY_TIMEOUT) timers
    watch,          \* whether this run keeps the observation logs
    spawnLog,       \* watched run: what triggered each spawn
    exitLog,        \* watched run: the exit codes in the order of the 'exit' events
    lastSet,        \* what the latest record.set call received
    sample          \* the bytes <<lo, hi, humidity>> the sensor notifies in this run

vars == <<timer, record, health, retryCounter, gattProcess, procs, retryTimers,
          watch, spawnLog, exitLog, lastSet, sample>>

\* A slot that holds no subprocess.
NoProcess ==
    [alive |-> FALSE, lineCounter |-> 0, lines |-> 0, published |-> 0,
     sigint |-> FALSE, closing |-> FALSE]

NewProcessCounterNotReset ==
    [alive |-> TRUE, lineCounter |-> 1, lines |-> 0, published |-> 0,
     sigint |-> FALSE, closing |-> FALSE]

\* spawn(...) followed by `let lineCounter = 0`: a running subprocess that has
\* delivered no line, got no signal and has no closeChildProcess listener.
NewProcess ==
    [alive |-> TRUE, lineCounter |-> 0, lines |-> 0, published |-> 0,
     sigint |-> FALSE, closing |-> FALSE]

Alive == {p \in Slots : procs[p].alive}
FreeSlots == Slots \ Alive
NextSlot == CHOOSE p \in FreeSlots : \A q \in FreeSlots : p <= q

Append1(log, x) == IF watch /\ Len(log) < LogLen THEN Append(log, x) ELSE log
\* a watched run ends when one of its logs is full
InHorizon(log) == watch => Len(log) < LogLen

TypeOK ==
    /\ timer \in {"unset", "running", "cleared"}
    /\ record \in {"unset", "open", "discarded"}
    /\ health \in HealthStates
    /\ retryCounter \in Nat
    /\ gattProcess \in Slots \cup {None}
    /\ retryTimers \in 0..MaxPending
    /\ watch \in BOOLEAN
    /\ \A p \in Slots : procs[p].lines \in 0..MaxLines

InitCommon ==
    /\ timer = "unset"
    /\ record = "unset"
    /\ health = "INACTIVE"
    /\ retryCounter = 0
    /\ gattProcess = None
    /\ procs = [p \in Slots |-> NoProcess]
    /\ retryTimers = 0
    /\ spawnLog = << >>
    /\ exitLog = << >>
    /\ lastSet = NothingSet

Init == InitCommon /\ watch = FALSE /\ sample = ExampleSample

InitWatched == InitCommon /\ watch = TRUE /\ sample = ExampleSample

\* a run for every pair of temperature bytes
InitDecode ==
    /\ InitCommon
    /\ watch = FALSE
    /\ sample \in {<<lo, hi, ExampleSample[3]>> : lo \in Byte, hi \in Byte}

\* ------------------------------------------------------------ pure helpers

\* `code === 0 || code === 130`
ExitOkOnlyZero(code) == code = 0

ExitOk(code) == code \in {0, 130}

\* hexadecimal digit characters of a Number literal; their values
IsHex(c) == \E i \in 1..Len(HexDigits) : HexDigits[i] = c
DigitValue(c) == (CHOOSE i \in 1..Len(HexDigits) : HexDigits[i] = c) - 1

RECURSIVE HexValue(_)
HexValue(ds) ==
    IF ds = << >> THEN 0
    ELSE Len(HexDigits) * HexValue(SubSeq(ds, 1, Len(ds) - 1)) + DigitValue(ds[Len(ds)])

\* +`0x${ds}`: the number of a hexadecimal literal, NaN when there is no digit
\* or a character that is no hexadecimal digit
ToNumber(ds) ==
    IF ds # << >> /\ \A i \in 1..Len(ds) : IsHex(ds[i]) THEN HexValue(ds) ELSE NaN

\* `${values[i]}` (i counted from 1 here): a missing element prints "undefined"
Token(values, i) == IF i <= Len(values) THEN values[i] ELSE Undefined

\* +`0x${values[1]}${values[0]}` / 100, kept in hundredths (NaN / 100 is NaN)
TemperatureBigEndian(values) == ToNumber(Token(values, 1) \o Token(values, 2))

Temperature(values) == ToNumber(Token(values, 2) \o Token(values, 1))

\* +`0x${values[2]}`
Humidity(values) == ToNumber(Token(values, 3))

\* the object the line handler hands to record.set for a line that splits
\* into `values`
Decode(values) ==
    [written |-> TRUE, temperature |-> Temperature(values), humidity |-> Humidity(values)]

\* how gatttool prints a byte: two lowercase hexadecimal digits
ToHex2(b) == <<HexDigits[(b \div Len(HexDigits)) + 1], HexDigits[(b % Len(HexDigits)) + 1]>>

\* line.substring(line.indexOf('value:') + 6).trim().split(' ') of the lines
\* the tool prints: the acknowledgement of the write (no `value:` marker, the
\* rest of the text splits into words), a notification with the sample's
\* bytes, and a notification whose payload is missing (split gives [""])
ValuesOf(kind) ==
    CASE kind = "value" -> <<ToHex2(sample[1]), ToHex2(sample[2]), ToHex2(sample[3])>>
      [] kind = "header" -> <<Word, Word, Word, Word>>
      [] OTHER -> << << >> >>

\* a closeChildProcess that signals the process and resolves without waiting
CloseResolvesAtOnce(ps) ==
    IF gattProcess # None
    THEN [ps EXCEPT ![gattProcess].sigint = TRUE]
    ELSE ps

\* closeChildProcess(): with a process in the slot, register a once('exit')
\* listener on it and send it SIGINT; without one, resolve at once.
CloseChildProcess(ps) ==
    IF gattProcess # None
    THEN [ps EXCEPT ![gattProcess].closing = TRUE, ![gattProcess].sigint = TRUE]
    ELSE ps

\* ---------------------------------------------------------------- update()

\* the branch of update() that gives up: retryCounter >= MAX_RETRY (and not 0)
GivesUp == retryCounter # 0 /\ retryCounter >= MAX_RETRY

\* update() can run within the bounds: it gives up, or there is a slot for the
\* subprocess it spawns
UpdateInBounds == GivesUp \/ (FreeSlots # {} /\ InHorizon(spawnLog))

Update(trigger) ==
    IF GivesUp
    THEN /\ health' = "PROBLEM"
         /\ retryCounter' = 0
         /\ UNCHANGED <<gattProcess, procs, spawnLog>>
    ELSE /\ health' = "BUSY"
         /\ gattProcess' = NextSlot
         /\ procs' = [procs EXCEPT ![NextSlot] = NewProcess]
         /\ spawnLog' = Append1(spawnLog, trigger)
         /\ UNCHANGED retryCounter

\* ----------------------------------------------------------------- actions

\* start(config): called at most once per session
Start ==
    /\ timer # "running"
    /\ UpdateInBounds
    /\ timer' = "running"
    /\ record' = "open"
    /\ Update("start")
    /\ UNCHANGED <<retryTimers, watch, exitLog, lastSet, sample>>

\* stop(): the async function has no await, so its promise resolves with the
\* state this action leaves
Stop ==
    /\ timer' = "cleared"
    /\ procs' = CloseChildProcess(procs)
    /\ record' = IF record = "unset" THEN "unset" ELSE "discarded"
    /\ health' = "INACTIVE"
    /\ UNCHANGED <<retryCounter, gattProcess, retryTimers, watch, spawnLog, exitLog, lastSet, sample>>

\* the setInterval callback
IntervalTick ==
    /\ timer = "running"
    /\ UpdateInBounds
    /\ Update("interval")
    /\ UNCHANGED <<timer, record, retryTimers, watch, exitLog, lastSet, sample>>

\* a setTimeout callback scheduled by the 'exit' handler
RetryFire ==
    /\ retryTimers > 0
    /\ UpdateInBounds
    /\ retryTimers' = retryTimers - 1
    /\ Update("retry")
    /\ UNCHANGED <<timer, record, watch, exitLog, lastSet, sample>>

\* what the 'exit' handler leaves in retryCounter
RetryCounterKeptOnSuccess(code) ==
    IF ExitOk(code) THEN retryCounter ELSE retryCounter + 1

RetryCounterAfterExit(code) ==
    IF ExitOk(code) THEN 0 ELSE retryCounter + 1

\* what the 'exit' handler leaves in the health state
HealthKeptOnSuccess(code) == health

HealthAfterExit(code) == IF ExitOk(code) THEN "OK" ELSE health

\* the retry timers pending after the 'exit' handler
NoRetryScheduled(code) == retryTimers

RetryTimersAfterExit(code) == IF ExitOk(code) THEN retryTimers ELSE retryTimers + 1

\* the 'exit' event of subprocess p: the handler of update(), then the
\* once('exit') listeners closeChildProcess registered on p
OnExit(p, code) ==
    /\ procs[p].alive
    /\ InHorizon(exitLog)
    /\ ExitOk(code) \/ retryTimers < MaxPending
    /\ procs' = [procs EXCEPT ![p] = NoProcess]
    /\ gattProcess' = None
    /\ retryCounter' = RetryCounterAfterExit(code)
    /\ health' = HealthAfterExit(code)
    /\ retryTimers' = RetryTimersAfterExit(code)
    /\ exitLog' = Append1(exitLog, code)
    /\ UNCHANGED <<timer, record, watch, spawnLog, lastSet, sample>>

\* an 'error' handler that retries the way the 'exit' handler does
OnErrorRetries(p) ==
    /\ procs[p].alive
    /\ procs[p].lines = 0
    /\ retryTimers < MaxPending
    /\ procs' = [procs EXCEPT ![p] = NoProcess]
    /\ gattProcess' = None
    /\ health' = "ERROR"
    /\ retryCounter' = retryCounter + 1
    /\ retryTimers' = retryTimers + 1
    /\ UNCHANGED <<timer, record, watch, spawnLog, exitLog, lastSet, sample>>

\* the 'error' event of subprocess p (the launch failed; no 'exit' follows)
OnError(p) ==
    /\ procs[p].alive
    /\ procs[p].lines = 0
    /\ procs' = [procs EXCEPT ![p] = NoProcess]
    /\ gattProcess' = None
    /\ health' = "ERROR"
    /\ UNCHANGED <<timer, record, retryCounter, retryTimers, watch, spawnLog, exitLog, lastSet, sample>>

\* a line after the first: it is decoded and handed to record.set
DataLineNotPublished(ps, p) == [ps EXCEPT ![p].lines = @ + 1]

DataLine(ps, p) == [ps EXCEPT ![p].lines = @ + 1, ![p].published = @ + 1]

\* a 'line' event of the readline interface on p's standard output
OnLine(p, kind) ==
    /\ procs[p].alive
    /\ procs[p].lines < MaxLines
    /\ IF procs[p].lineCounter = 0
       THEN /\ procs' = [procs EXCEPT ![p].lineCounter = 1, ![p].lines = @ + 1]
            /\ UNCHANGED lastSet
       ELSE /\ lastSet' = Decode(ValuesOf(kind))
            /\ procs' = CloseChildProcess(DataLine(procs, p))
    /\ UNCHANGED <<timer, record, health, retryCounter, gattProcess, retryTimers,
                   watch, spawnLog, exitLog, sample>>

Next ==
    \/ Start
    \/ Stop
    \/ IntervalTick
    \/ RetryFire
    \/ \E p \in Slots, code \in ExitCodes : OnExit(p, code)
    \/ \E p \in Slots : OnError(p)
    \/ \E p \in Slots, kind \in LineKinds : OnLine(p, kind)

Spec == Init /\ [][Next]_vars

\* a watched run: one session that is not stopped, of a tool that prints nothing
NextWatched ==
    \/ Start
    \/ IntervalTick
    \/ RetryFire
    \/ \E p \in Slots, code \in ExitCodes : OnExit(p, code)
    \/ \E p \in Slots : OnError(p)

SpecWatched == InitWatched /\ [][NextWatched]_vars

\* subprocess p fires its 'exit' or its 'error' event
Ends(p) == OnError(p) \/ \E code \in ExitCodes : OnExit(p, code)

\* the event loop runs every timer callback that is due, and every subprocess
\* that was spawned ends with an 'exit' or an 'error' event
Fairness ==
    /\ WF_vars(IntervalTick)
    /\ WF_vars(RetryFire)
    /\ \A p \in Slots : WF_vars(Ends(p))

SpecFair == Init /\ [][Next]_vars /\ Fairness

\* a decoding run: one cycle whose subprocess prints notifications of the sample
NextDecode ==
    \/ Start
    \/ \E p \in Slots : OnLine(p, "value")

SpecDecode == InitDecode /\ [][NextDecode]_vars

\* --------------------------------------------------------------- claims

\* what every step of an event of subprocess p shows: p ended; p delivered a line
Ended(p) == procs[p].alive /\ ~procs'[p].alive
Delivered(p) == procs[p].alive /\ procs'[p].lines = procs[p].lines + 1

\* this step spawned a subprocess
Spawned == \E p \in Slots : ~procs[p].alive /\ procs'[p].alive

\* this step ran update(): from the interval timer or from a retry timer
UpdateRan == IntervalTick \/ RetryFire

\* readings a subprocess that delivered n lines has published
ReadingsOf(n) == IF n = 0 THEN 0 ELSE n - 1

\* C1: at most one subprocess is alive in every reachable state, and no step
\* spawns a subprocess while gattProcess is still set from a previous cycle.
C1_OneSubprocessAtATime ==
    [][/\ Cardinality({p \in Slots : procs'[p].alive}) <= 1
       /\ Spawned => gattProcess = None]_vars

\* C2: when stop() is called while a subprocess is active, then at the moment
\* stop() resolves that subprocess has exited, health is INACTIVE and
\* gattProcess is absent.
C2_StopResolvesAfterExit ==
    [][(Stop /\ gattProcess # None) =>
          /\ ~procs'[gattProcess].alive
          /\ health' = "INACTIVE"
          /\ gattProcess' = None]_vars

\* C3: after stop() (and until start is called again) no update() body runs
\* and no subprocess is spawned.
C3_NoCycleAfterStop ==
    [][(timer = "cleared" /\ timer' = "cleared") => (~UpdateRan /\ ~Spawned)]_vars

\* C4: once stop() has set health to INACTIVE, no later event of the stopped
\* session changes health away from INACTIVE or changes retryCounter.
C4_StopOverridesRetry ==
    [][(timer = "cleared" /\ timer' = "cleared") =>
          (health' = "INACTIVE" /\ retryCounter' = retryCounter)]_vars

\* C5: an update() that runs with retryCounter >= MAX_RETRY sets health to
\* PROBLEM, resets retryCounter to 0, spawns nothing and schedules no retry
\* timer, and the next attempt (the next spawn, made while health still is
\* PROBLEM) happens only at a tick of the recurring timer.
C5_GiveUpWaitsForTick ==
    [][/\ (GivesUp /\ (UpdateRan \/ Start)) =>
             /\ health' = "PROBLEM"
             /\ retryCounter' = 0
             /\ ~Spawned
             /\ retryTimers' <= retryTimers
       /\ (health = "PROBLEM" /\ Spawned) => IntervalTick]_vars

\* C6: an 'exit' event with code 0 or 130 sets retryCounter to 0 and health to
\* OK, whatever retryCounter was, and schedules no retry timer.
C6_SuccessExitResets ==
    [][\A p \in Slots, code \in {0, 130} :
          (Ended(p) /\ OnExit(p, code)) =>
              /\ retryCounter' = 0
              /\ health' = "OK"
              /\ retryTimers' = retryTimers]_vars

\* a 0/130 exit has just been handled while retry timers of earlier abnormal
\* exits are still pending
C6_Witness ==
    /\ health = "OK"
    /\ retryCounter = 0
    /\ gattProcess = None
    /\ retryTimers > 0

C8_AtMostOneReadingPerCycle ==
    \A p \in Slots : procs[p].published <= 1

\* C8, amended: every line after the first publishes exactly one reading, so
\* a subprocess that delivered n >= 1 lines has published n - 1 readings; when
\* a subprocess that delivered its first line and one data line exits with
\* code 130, it has published exactly once and health becomes OK.
C8_OneReadingPerDataLine ==
    [][\A p \in Slots :
          /\ procs'[p].published = ReadingsOf(procs'[p].lines)
          /\ (Ended(p) /\ procs[p].lines = 2 /\ OnExit(p, 130)) =>
                (procs[p].published = 1 /\ health' = "OK")]_vars

\* a cycle that has delivered the first line and one data line, has published
\* once and has asked its subprocess to terminate
C8_Witness ==
    \E p \in Slots :
        /\ procs[p].alive
        /\ gattProcess = p
        /\ procs[p].lines = 2
        /\ procs[p].published = 1
        /\ procs[p].sigint
        /\ lastSet.written
        /\ lastSet.temperature # NaN

\* C9: the first line of every subprocess, whatever its content, causes no
\* publish and no termination request.
C9_FirstLineDiscarded ==
    [][\A p \in Slots, kind \in LineKinds :
          (Delivered(p) /\ procs[p].lines = 0 /\ OnLine(p, kind)) =>
              /\ lastSet' = lastSet
              /\ \A q \in Slots :
                    /\ procs'[q].published = procs[q].published
                    /\ procs'[q].sigint = procs[q].sigint
                    /\ procs'[q].closing = procs[q].closing]_vars

\* two subprocesses have each delivered their first line and nothing was
\* published or signalled
C9_Witness ==
    /\ \A p \in Slots :
          /\ procs[p].alive
          /\ procs[p].lines = 1
          /\ procs[p].lineCounter = 1
          /\ procs[p].published = 0
          /\ ~procs[p].sigint
    /\ ~lastSet.written

\* C10: 0 <= retryCounter <= MAX_RETRY in every reachable state.
C10_RetryCounterBounded ==
    retryCounter \in 0..MAX_RETRY

\* C11: start(config) schedules the recurring timer and runs the first poll
\* cycle at once: when start returns, the timer runs, a subprocess has been
\* spawned and health is BUSY.
C11_StartRunsFirstCycle ==
    [][Start => (timer' = "running" /\ Spawned /\ health' = "BUSY")]_vars

\* C12: for every pair of bytes (lo, hi) printed as two-digit hexadecimal
\* tokens tokens[0] = lo and tokens[1] = hi, the published temperature in
\* hundredths is the 16-bit little-endian integer hi * 256 + lo.
C12_TemperatureLittleEndian ==
    lastSet.written => lastSet.temperature = sample[2] * 256 + sample[1]

\* a reading of a sample whose two bytes differ and are not digits only
C12_Witness ==
    /\ lastSet.written
    /\ sample[1] = 142
    /\ sample[2] = 171
    /\ lastSet.temperature = 43918

\* C13: an 'exit' event with a code other than 0 and 130 increments
\* retryCounter by exactly 1, schedules exactly one retry timer, clears
\* gattProcess and leaves health unchanged.
C13_AbnormalExitRetries ==
    [][\A p \in Slots, code \in ExitCodes \ {0, 130} :
          (Ended(p) /\ OnExit(p, code)) =>
              /\ retryCounter' = retryCounter + 1
              /\ retryTimers' = retryTimers + 1
              /\ gattProcess' = None
              /\ health' = health]_vars

\* the only subprocess has exited abnormally: a retry is pending, the counter
\* is positive and health still is BUSY
C13_Witness ==
    /\ Alive = {}
    /\ gattProcess = None
    /\ retryCounter = 1
    /\ retryTimers = 1
    /\ health = "BUSY"

NoTerminationRequest ==
    \A q \in Slots :
        /\ procs'[q].sigint = procs[q].sigint
        /\ procs'[q].closing = procs[q].closing

\* C15: a malformed line after the first (no value: payload, or tokens that
\* are no hexadecimal numbers) does not end the cycle and causes no
\* termination request: the subprocess keeps running and is awaited.
C15_MalformedLineContained ==
    [][\A p \in Slots, kind \in {"header", "garbage"} :
          (Delivered(p) /\ procs[p].lines > 0 /\ OnLine(p, kind)) =>
              (procs'[p].alive /\ NoTerminationRequest)]_vars

\* C16: the SIGINT the line handler issues for a line after the first of
\* subprocess p is sent to p itself and to no other subprocess.
C16_SigintToOwnSubprocess ==
    [][\A p \in Slots, kind \in LineKinds :
          (Delivered(p) /\ procs[p].lines > 0 /\ OnLine(p, kind)) =>
              /\ procs'[p].sigint
              /\ \A q \in Slots \ {p} : procs'[q].sigint = procs[q].sigint]_vars

\* this step called closeChildProcess(): stop(), or the line handler for a
\* line after the first
CloseCalled ==
    \/ health' = "INACTIVE" /\ gattProcess' = gattProcess /\ Stop
    \/ \E p \in Slots :
          /\ Delivered(p)
          /\ procs[p].lines > 0
          /\ \E kind \in LineKinds : OnLine(p, kind)

C18_SlotAgreesWithProcesses ==
    /\ gattProcess = None <=> Alive = {}
    /\ gattProcess # None => Alive = {gattProcess}

\* C19: at most one retry timer is pending, and one is pending only while no
\* subprocess is alive.
C19_OneRetryTimerNoSubprocess ==
    /\ retryTimers <= 1
    /\ retryTimers > 0 => Alive = {}

\* C20: when every subprocess eventually fires 'exit' or 'error' and every
\* timer eventually fires, health BUSY is always followed by OK, PROBLEM,
\* ERROR or INACTIVE.
C20_BusyResolves ==
    (health = "BUSY") ~> (health \in {"OK", "PROBLEM", "ERROR", "INACTIVE"})

\* health is BUSY between an abnormal exit and the retry it scheduled
C20_Witness ==
    /\ health = "BUSY"
    /\ Alive = {}
    /\ retryCounter > 0
    /\ retryTimers > 0
====
